---- MODULE Spec2Model ----
(***************************************************************************)
(* A model of src/python/sidecar.py: the speech sidecar's control path     *)
(* (main's read loop and the SpeechSidecar handlers it calls) and its      *)
(* single background worker (_process_loop, _append_audio,                 *)
(* _process_buffer, _process_segment), interleaved statement by statement. *)
(*                                                                         *)
(* Samples carry no values: a sample is the index it got when handle_audio *)
(* accepted its chunk (fed[i] is the rate it was recorded at), so that a   *)
(* segment's content says which part of the stream it is.                  *)
(* Seconds are counted in halves (segment_seconds = halves / 2), which     *)
(* floats represent exactly, so int(seconds * rate) is exact here.         *)
(***************************************************************************)
EXTENDS Integers, Sequences, FiniteSets, TLC

\* ---------------------------------------------------------------- bounds
\* lines main reads from stdin
MaxLines == 2
\* samples accepted by handle_audio over a run
MaxFed == 3
\* samples of the one-rate stream of SpecBuffer
MaxStream == 5
\* samples in one audio chunk
MaxChunkLen == 2
\* segmentSeconds of an init message, in halves of a second: 2..MaxSegHalves
MaxSegHalves == 2
\* segments kept in the log of processed segments
MaxSegLog == 3

\* sample rates of audio messages (samples per second)
Rates == {1, 2}
\* the sample rate of the one-rate stream of SpecBuffer
BufRate == 2
\* pending_sample_rate = None
NoRate == 0

SegHalves == 2..MaxSegHalves
\* stepSeconds of an init message, in halves of a second; half a second at
\* rate 1 makes step_samples 0
StepHalves == {1, 2}
OptionSet == [segment_seconds : SegHalves, step_seconds : StepHalves]
NoOptions == [segment_seconds |-> 0, step_seconds |-> 0]

\* ---------------------------------------------------------------- helpers
\* int(halves / 2 * rate): Python's int() truncates toward zero
IntTrunc(halves, rate) ==
    IF halves * rate >= 0 THEN (halves * rate) \div 2
    ELSE 0 - ((0 - halves * rate) \div 2)

Min(a, b) == IF a <= b THEN a ELSE b
Max(a, b) == IF a >= b THEN a ELSE b

\* buffer[:n] of a numpy array (a negative n counts from the end)
PySliceTo(s, n) ==
    IF n >= 0 THEN SubSeq(s, 1, Min(n, Len(s)))
    ELSE SubSeq(s, 1, Max(Len(s) + n, 0))

\* buffer[n:] of a numpy array (a negative n counts from the end)
PySliceFrom(s, n) ==
    IF n >= 0 THEN SubSeq(s, Min(n, Len(s)) + 1, Len(s))
    ELSE SubSeq(s, Max(Len(s) + n, 0) + 1, Len(s))

\* np.concatenate(chunks)
RECURSIVE Concat(_)
Concat(chunks) ==
    IF chunks = <<>> THEN <<>> ELSE Head(chunks) \o Concat(Tail(chunks))

\* the samples of indices from+1 .. from+n, in order
Run(from, n) == [i \in 1..n |-> from + i]

\* ---------------------------------------------------------------- state
VARIABLES
    \* SpeechSidecar fields
    options, ready, enabled, whisper, separator,
    audio_queue, shutdown_event,
    pending_chunks, pending_samples, pending_sample_rate,
    \* module constant HAS_DEMUCS, fixed at import
    HAS_DEMUCS,
    \* main thread: its place, and the lines it has read
    mpc, nlines,
    \* worker thread: its place, whether it still runs, and its locals
    wpc, walive, cur, segment_samples, step_samples, buffer, acc,
    \* stdout: the lines the main thread sent, and the lines the worker sent
    \* (for the segments in the log)
    out, wout,
    \* history: rate of every accepted sample, segments handed to
    \* _process_segment and what came of each, a segment being processed
    fed, segs, outcomes, inflight,
    \* history: what the control path last did about the buffer:
    \*   "refused"  enable() returned at line 147, the sidecar not being ready
    \*   "enabled"  enable() took effect, the buffer being empty
    \*   "kept"     enable() took effect, the buffer holding samples
    \*   "returned" disable() returned while the worker was inside an iteration
    \*   "settled"  disable() returned and that iteration is over
    lastCtl,
    \* history: how many samples had been accepted when disable() was last
    \* called
    stale,
    \* SpeechSidecar fields: the dedup state (last_word_time in tenths of a
    \* second)
    last_word, last_word_time,
    \* time.time(), in tenths of a second
    now,
    \* _emit_segment: its place, its local words_out, the messages it has
    \* sent, the word_infos it has gone through, and, for the audio segment
    \* being processed, the _emit_segment calls and transcripts so far
    epc, words_out, sent, seen, ncalls, ntranscripts,
    \* _clean_word: an input string and the results of applying it in turn
    word, cleaned

sidecarVars == <<options, ready, enabled, whisper, separator, audio_queue,
                 shutdown_event, pending_chunks, pending_samples,
                 pending_sample_rate, HAS_DEMUCS>>
mainVars == <<mpc, nlines>>
workerVars == <<wpc, walive, cur, segment_samples, step_samples, buffer, acc>>
histVars == <<fed, segs, outcomes, wout, inflight, lastCtl, stale>>
dedupVars == <<last_word, last_word_time>>
emitVars == <<now, epc, words_out, sent, seen, ncalls, ntranscripts>>
cleanVars == <<word, cleaned>>
textVars == <<dedupVars, emitVars, cleanVars>>
vars == <<sidecarVars, mainVars, workerVars, out, histVars, textVars>>

\* last_word = None
NoWord == <<"None">>

NoChunk == [samples |-> <<>>, sample_rate |-> NoRate]

\* SpeechSidecar.__init__, with the worker started and main about to read
InitCommon ==
    /\ shutdown_event = FALSE
    /\ pending_chunks = <<>>
    /\ pending_samples = 0
    /\ pending_sample_rate = NoRate
    /\ mpc = "read"
    /\ nlines = 0
    /\ wpc = "loop"
    /\ walive = TRUE
    /\ cur = NoChunk
    /\ segment_samples = 0
    /\ step_samples = 0
    /\ buffer = <<>>
    /\ acc = 0
    /\ out = <<>>
    /\ wout = <<>>
    /\ segs = <<>>
    /\ outcomes = <<>>
    /\ inflight = FALSE
    /\ lastCtl = "none"
    /\ stale = 0
    /\ last_word = NoWord
    /\ last_word_time = 0
    /\ now = 0
    /\ epc = "idle"
    /\ words_out = <<>>
    /\ sent = <<>>
    /\ seen = <<>>
    /\ ncalls = 0
    /\ ntranscripts = 0
    /\ cleaned = <<>>

\* no chunk has been accepted
NothingFed ==
    /\ audio_queue = <<>>
    /\ fed = <<>>

\* handle_audio has accepted one chunk, which waits in the queue
OneChunkFed ==
    \E n \in 1..MaxChunkLen, rate \in Rates :
       /\ audio_queue = <<[samples |-> Run(0, n), sample_rate |-> rate]>>
       /\ fed = [i \in 1..n |-> rate]

\* A run starts right after construction, or where a successful init
\* message, or one followed by an enable message, leaves the sidecar
\* (out and nlines then count from there).
Init ==
    /\ InitCommon
    /\ word = <<>>
    /\ \/ /\ options = NoOptions
          /\ whisper = FALSE
          /\ separator = FALSE
          /\ ready = FALSE
          /\ enabled = FALSE
          /\ HAS_DEMUCS \in BOOLEAN
          /\ NothingFed
       \/ /\ options \in OptionSet
          /\ whisper = TRUE
          /\ separator = TRUE
          /\ ready = TRUE
          /\ enabled \in BOOLEAN
          /\ HAS_DEMUCS = TRUE
          /\ NothingFed

\* A run that starts where a successful init message, an enable message and
\* an audio message leave the sidecar: the chunk waits in the queue.
InitQueued ==
    /\ InitCommon
    /\ word = <<>>
    /\ options \in OptionSet
    /\ whisper = TRUE
    /\ separator = TRUE
    /\ ready = TRUE
    /\ enabled = TRUE
    /\ HAS_DEMUCS = TRUE
    /\ OneChunkFed

\* send_message(payload) on the main thread: lines on stdout, each named by
\* its type or status
Send(msgs) == out' = out \o msgs

\* the worker is between iterations: at the loop head, or stopped
WorkerIdle == wpc \in {"loop", "done"}

\* ---------------------------------------------------------------- inbound lines
\* the "sampleRate" field of an audio message: absent, a JSON number (v is
\* its value in halves, so 3 is 1.5), or something int() rejects (a
\* non-numeric string, null)
RateFields ==
    {[kind |-> "missing", v |-> 0], [kind |-> "text", v |-> 0]}
        \cup {[kind |-> "number", v |-> h] : h \in {0 - 2, 0, 2, 3, 4}}

\* int(message.get("sampleRate", 0)): the default 0 when absent, the number
\* truncated toward zero, or an exception (ok = FALSE)
IntOfRateField(f) ==
    CASE f.kind = "missing" -> [ok |-> TRUE, v |-> 0]
      [] f.kind = "number" -> [ok |-> TRUE, v |-> IntTrunc(f.v, 1)]
      [] OTHER -> [ok |-> FALSE, v |-> 0]

\* the "samples" field of an audio message: absent or empty, something
\* b64decode/frombuffer rejects, or the base64 of n float32 samples
SampleFields ==
    {[kind |-> "missing", n |-> 0], [kind |-> "undecodable", n |-> 0]}
        \cup {[kind |-> "pcm", n |-> n] : n \in 1..MaxChunkLen}

\* ---------------------------------------------------------------- handlers
\* (C3 mutant) handle_audio without the check of line 159
HandleAudioUnchecked(n, rate) ==
    /\ audio_queue' = Append(audio_queue,
           [samples |-> Run(Len(fed), n), sample_rate |-> rate])
    /\ fed' = fed \o [i \in 1..n |-> rate]

\* SpeechSidecar.handle_audio(samples, sample_rate), samples being the next
\* n samples of the stream
HandleAudio(n, rate) ==
    IF ~ready \/ ~enabled
    THEN UNCHANGED <<audio_queue, fed>>
    ELSE /\ audio_queue' = Append(audio_queue,
                [samples |-> Run(Len(fed), n), sample_rate |-> rate])
         /\ fed' = fed \o [i \in 1..n |-> rate]

\* (C6 mutant) enable() clearing the buffer as disable() does
EnableClearing ==
    /\ IF ~ready
       THEN /\ UNCHANGED <<enabled, out, pending_chunks, pending_samples,
                           pending_sample_rate>>
            /\ lastCtl' = "refused"
       ELSE /\ enabled' = TRUE
            /\ Send(<<"enabled">>)
            /\ pending_chunks' = <<>>
            /\ pending_samples' = 0
            /\ pending_sample_rate' = NoRate
            /\ lastCtl' = "enabled"

\* (C7 mutant) enable() without the check of line 146
EnableUnchecked ==
    /\ enabled' = TRUE
    /\ Send(<<"enabled">>)
    /\ lastCtl' = IF ~ready THEN "refused"
                   ELSE IF pending_chunks = <<>> /\ pending_samples = 0
                        THEN "enabled" ELSE "kept"
    /\ UNCHANGED <<pending_chunks, pending_samples, pending_sample_rate>>

\* SpeechSidecar.enable()
Enable ==
    /\ IF ~ready
       THEN /\ UNCHANGED <<enabled, out>>
            /\ lastCtl' = "refused"
       ELSE /\ enabled' = TRUE
            /\ Send(<<"enabled">>)
            /\ lastCtl' = IF pending_chunks = <<>> /\ pending_samples = 0
                           THEN "enabled" ELSE "kept"
    /\ UNCHANGED <<pending_chunks, pending_samples, pending_sample_rate>>

\* SpeechSidecar.shutdown()
Shutdown == shutdown_event' = TRUE

\* main: one line read and dispatched; what the line leaves to later steps
\* (initialize, disable) starts here
Read(k) ==
    /\ mpc = "read"
    /\ nlines < MaxLines
    /\ nlines' = nlines + 1
    /\ UNCHANGED textVars
    /\ k

\* a blank line, or an object whose type no branch handles
ReadIgnored ==
    Read(UNCHANGED <<sidecarVars, mpc, workerVars, out, histVars>>)

\* a line json.loads rejects
ReadBadJson ==
    Read(/\ Send(<<"error">>)
         /\ UNCHANGED <<sidecarVars, mpc, workerVars, histVars>>)

\* a line that is valid JSON but no object: message.get raises
ReadNonObject ==
    Read(/\ mpc' = "crashed"
         /\ UNCHANGED <<sidecarVars, workerVars, out, histVars>>)

\* end of input: the for loop ends and main returns
ReadEof ==
    Read(/\ mpc' = "exited"
         /\ UNCHANGED <<sidecarVars, workerVars, out, histVars>>)

\* an init message whose options parse_options rejects (float() raises)
ReadInitBadOptions ==
    Read(/\ Send(<<"error">>)
         /\ UNCHANGED <<sidecarVars, mpc, workerVars, histVars>>)

\* an init message: parse_options, then initialize's first statement
ReadInit ==
    Read(\E o \in OptionSet :
         /\ options' = o
         /\ mpc' = "i99"
         /\ UNCHANGED <<ready, enabled, whisper, separator, audio_queue,
                        shutdown_event, pending_chunks, pending_samples,
                        pending_sample_rate, HAS_DEMUCS, workerVars, out,
                        histVars>>)

ReadEnable ==
    Read(/\ Enable
         /\ UNCHANGED <<options, ready, whisper, separator, audio_queue,
                        shutdown_event, HAS_DEMUCS, mpc, workerVars,
                        fed, segs, outcomes, wout, inflight, stale>>)

\* a disable message: disable's first statement
ReadDisable ==
    Read(/\ enabled' = FALSE
         /\ mpc' = "d153"
         /\ stale' = Len(fed)
         /\ UNCHANGED <<options, ready, whisper, separator, audio_queue,
                        shutdown_event, pending_chunks, pending_samples,
                        pending_sample_rate, HAS_DEMUCS, workerVars, out,
                        fed, segs, outcomes, wout, inflight, lastCtl>>)

\* an audio message
ReadAudio ==
    Read(\E sf \in SampleFields, rf \in RateFields :
         LET sample_rate == IntOfRateField(rf) IN
         /\ sf.kind = "pcm" => Len(fed) + sf.n <= MaxFed
         /\ IF ~sample_rate.ok
            THEN /\ mpc' = "crashed"
                 /\ UNCHANGED <<audio_queue, fed>>
            ELSE /\ UNCHANGED mpc
                 /\ IF sf.kind = "missing" \/ sample_rate.v <= 0
                        \/ sf.kind = "undecodable"
                    THEN UNCHANGED <<audio_queue, fed>>
                    ELSE HandleAudio(sf.n, sample_rate.v)
         /\ UNCHANGED <<options, ready, enabled, whisper, separator,
                        shutdown_event, pending_chunks, pending_samples,
                        pending_sample_rate, HAS_DEMUCS, workerVars, out,
                        segs, outcomes, wout, inflight, lastCtl, stale>>)

\* a shutdown message: the flag is set and main leaves the loop
ReadShutdown ==
    Read(/\ Shutdown
         /\ mpc' = "exited"
         /\ UNCHANGED <<options, ready, enabled, whisper, separator,
                        audio_queue, pending_chunks, pending_samples,
                        pending_sample_rate, HAS_DEMUCS, workerVars, out,
                        histVars>>)

\* a step of initialize or disable: main moves on, the worker does not
MainStep(from, to) ==
    /\ mpc = from
    /\ mpc' = to
    /\ UNCHANGED <<nlines, workerVars, textVars>>

\* (C11 mutant) initialize without line 99: ready is left as it was
Init99Keeping ==
    /\ MainStep("i99", "i100")
    /\ UNCHANGED <<options, ready, enabled, whisper, separator, audio_queue,
                   shutdown_event, pending_chunks, pending_samples,
                   pending_sample_rate, HAS_DEMUCS, out, histVars>>

\* initialize, line 99
Init99 ==
    /\ MainStep("i99", "i100")
    /\ ready' = FALSE
    /\ UNCHANGED <<options, enabled, whisper, separator, audio_queue,
                   shutdown_event, pending_chunks, pending_samples,
                   pending_sample_rate, HAS_DEMUCS, out, histVars>>

\* initialize, line 100
Init100 ==
    /\ MainStep("i100", "i101")
    /\ enabled' = FALSE
    /\ UNCHANGED <<options, ready, whisper, separator, audio_queue,
                   shutdown_event, pending_chunks, pending_samples,
                   pending_sample_rate, HAS_DEMUCS, out, histVars>>

\* initialize, line 101
Init101 ==
    /\ MainStep("i101", "i102")
    /\ pending_chunks' = <<>>
    /\ UNCHANGED <<options, ready, enabled, whisper, separator, audio_queue,
                   shutdown_event, pending_samples, pending_sample_rate,
                   HAS_DEMUCS, out, histVars>>

\* initialize, line 102
Init102 ==
    /\ MainStep("i102", "i103")
    /\ pending_samples' = 0
    /\ UNCHANGED <<options, ready, enabled, whisper, separator, audio_queue,
                   shutdown_event, pending_chunks, pending_sample_rate,
                   HAS_DEMUCS, out, histVars>>

\* initialize, lines 103-110: without demucs an error and return
Init103 ==
    /\ mpc = "i103"
    /\ pending_sample_rate' = NoRate
    /\ IF ~HAS_DEMUCS
       THEN /\ Send(<<"error">>)
            /\ mpc' = "read"
       ELSE /\ Send(<<"loading-demucs">>)
            /\ mpc' = "i111"
    /\ UNCHANGED <<options, ready, enabled, whisper, separator, audio_queue,
                   shutdown_event, pending_chunks, pending_samples,
                   HAS_DEMUCS, nlines, workerVars, histVars, textVars>>

\* initialize, lines 111-135: the separation model is built, or building it
\* raises and main reports the error
InitSeparator ==
    /\ mpc = "i111"
    /\ UNCHANGED <<nlines, workerVars, textVars>>
    /\ \/ /\ separator' = TRUE
          /\ Send(<<"loading-whisper">>)
          /\ mpc' = "i137"
       \/ /\ UNCHANGED separator
          /\ Send(<<"error">>)
          /\ mpc' = "read"
    /\ UNCHANGED <<options, ready, enabled, whisper, audio_queue,
                   shutdown_event, pending_chunks, pending_samples,
                   pending_sample_rate, HAS_DEMUCS, histVars>>

\* initialize, lines 137-140: the transcription model is built, or building
\* it raises and main reports the error
InitWhisper ==
    /\ mpc = "i137"
    /\ UNCHANGED <<nlines, workerVars, textVars>>
    /\ \/ /\ whisper' = TRUE
          /\ UNCHANGED out
          /\ mpc' = "i141"
       \/ /\ UNCHANGED whisper
          /\ Send(<<"error">>)
          /\ mpc' = "read"
    /\ UNCHANGED <<options, ready, enabled, separator, audio_queue,
                   shutdown_event, pending_chunks, pending_samples,
                   pending_sample_rate, HAS_DEMUCS, histVars>>

\* initialize, lines 141-143
InitReady ==
    /\ MainStep("i141", "read")
    /\ ready' = TRUE
    /\ Send(<<"status-ready", "ready">>)
    /\ UNCHANGED <<options, enabled, whisper, separator, audio_queue,
                   shutdown_event, pending_chunks, pending_samples,
                   pending_sample_rate, HAS_DEMUCS, histVars>>

\* disable, line 153
Disable153 ==
    /\ MainStep("d153", "d154")
    /\ pending_chunks' = <<>>
    /\ UNCHANGED <<options, ready, enabled, whisper, separator, audio_queue,
                   shutdown_event, pending_samples, pending_sample_rate,
                   HAS_DEMUCS, out, histVars>>

\* disable, line 154
Disable154 ==
    /\ MainStep("d154", "d155")
    /\ pending_samples' = 0
    /\ UNCHANGED <<options, ready, enabled, whisper, separator, audio_queue,
                   shutdown_event, pending_chunks, pending_sample_rate,
                   HAS_DEMUCS, out, histVars>>

\* disable, lines 155-156: disable returns
Disable155 ==
    /\ MainStep("d155", "read")
    /\ pending_sample_rate' = NoRate
    /\ Send(<<"disabled">>)
    /\ lastCtl' = IF WorkerIdle \/ ~walive THEN "settled" ELSE "returned"
    /\ UNCHANGED <<options, ready, enabled, whisper, separator, audio_queue,
                   shutdown_event, pending_chunks, pending_samples,
                   HAS_DEMUCS, fed, segs, outcomes, wout, inflight, stale>>

Main ==
    \/ ReadIgnored
    \/ ReadBadJson
    \/ ReadNonObject
    \/ ReadEof
    \/ ReadInitBadOptions
    \/ ReadInit
    \/ ReadEnable
    \/ ReadDisable
    \/ ReadAudio
    \/ ReadShutdown
    \/ Init99
    \/ Init100
    \/ Init101
    \/ Init102
    \/ Init103
    \/ InitSeparator
    \/ InitWhisper
    \/ InitReady
    \/ Disable153
    \/ Disable154
    \/ Disable155

\* ---------------------------------------------------------------- worker
\* a step of the worker thread from one place to another; reaching the loop
\* head ends the iteration a disable() may have interrupted
WStep(from, to) ==
    /\ walive
    /\ wpc = from
    /\ wpc' = to
    /\ lastCtl' = IF to = "loop" /\ lastCtl = "returned"
                   THEN "settled" ELSE lastCtl
    /\ UNCHANGED <<mainVars, HAS_DEMUCS, options, ready, enabled, whisper,
                   separator, shutdown_event, fed, stale, textVars>>

\* the locals of _process_buffer, out of scope
NoLocals ==
    /\ segment_samples' = 0
    /\ step_samples' = 0
    /\ buffer' = <<>>

\* _process_loop, line 167: the loop ends once the flag is set
LoopHead ==
    /\ walive
    /\ wpc = "loop"
    /\ IF shutdown_event
       THEN /\ wpc' = "done"
            /\ walive' = FALSE
       ELSE /\ wpc' = "get"
            /\ UNCHANGED walive
    /\ UNCHANGED <<sidecarVars, mainVars, cur, segment_samples, step_samples,
                   buffer, acc, out, fed, segs, outcomes, wout,
                   inflight, lastCtl, stale, textVars>>

\* (C4 mutant) a LifoQueue: the newest chunk
DequeueNewest(q) ==
    [item |-> q[Len(q)], rest |-> SubSeq(q, 1, Len(q) - 1)]

\* queue.Queue.get: the oldest chunk
Dequeue(q) == [item |-> Head(q), rest |-> Tail(q)]

\* _process_loop, lines 168-171: the next chunk, or a timeout and continue
Get ==
    /\ IF audio_queue = <<>>
       THEN /\ WStep("get", "loop")
            /\ UNCHANGED <<audio_queue, cur>>
       ELSE /\ WStep("get", "c172")
            /\ cur' = Dequeue(audio_queue).item
            /\ audio_queue' = Dequeue(audio_queue).rest
    /\ UNCHANGED <<walive, pending_chunks, pending_samples,
                   pending_sample_rate, segment_samples, step_samples, buffer,
                   acc, out, wout, segs, outcomes, inflight>>

\* _process_loop, line 172, first operand: not self.ready
CheckReady ==
    /\ IF ~ready
       THEN /\ WStep("c172", "loop")
            /\ cur' = NoChunk
       ELSE /\ WStep("c172", "c172e")
            /\ UNCHANGED cur
    /\ UNCHANGED <<walive, audio_queue, pending_chunks, pending_samples,
                   pending_sample_rate, segment_samples, step_samples, buffer,
                   acc, out, wout, segs, outcomes, inflight>>

\* _process_loop, line 172, second operand: not self.enabled
CheckEnabled ==
    /\ IF ~enabled
       THEN /\ WStep("c172e", "loop")
            /\ cur' = NoChunk
       ELSE /\ WStep("c172e", "a178")
            /\ UNCHANGED cur
    /\ UNCHANGED <<walive, audio_queue, pending_chunks, pending_samples,
                   pending_sample_rate, segment_samples, step_samples, buffer,
                   acc, out, wout, segs, outcomes, inflight>>

\* _append_audio, line 178
Append178 ==
    /\ IF pending_sample_rate = NoRate
            \/ pending_sample_rate # cur.sample_rate
       THEN WStep("a178", "a179")
       ELSE WStep("a178", "a182")
    /\ UNCHANGED <<walive, audio_queue, pending_chunks, pending_samples,
                   pending_sample_rate, cur, segment_samples, step_samples,
                   buffer, acc, out, wout, segs, outcomes, inflight>>

\* _append_audio, line 179
Append179 ==
    /\ WStep("a179", "a180")
    /\ pending_sample_rate' = cur.sample_rate
    /\ UNCHANGED <<walive, audio_queue, pending_chunks, pending_samples, cur,
                   segment_samples, step_samples, buffer, acc, out, wout, segs,
                   outcomes, inflight>>

\* (C2 mutant) the rate recorded anew but the old chunks kept
Append180Keeping ==
    /\ WStep("a180", "a181")
    /\ UNCHANGED <<walive, audio_queue, pending_chunks, pending_samples,
                   pending_sample_rate, cur, segment_samples, step_samples,
                   buffer, acc, out, wout, segs, outcomes, inflight>>

\* _append_audio, line 180
Append180 ==
    /\ WStep("a180", "a181")
    /\ pending_chunks' = <<>>
    /\ UNCHANGED <<walive, audio_queue, pending_samples, pending_sample_rate,
                   cur, segment_samples, step_samples, buffer, acc, out, wout, segs,
                   outcomes, inflight>>

\* _append_audio, line 181
Append181 ==
    /\ WStep("a181", "a182")
    /\ pending_samples' = 0
    /\ UNCHANGED <<walive, audio_queue, pending_chunks, pending_sample_rate,
                   cur, segment_samples, step_samples, buffer, acc, out, wout, segs,
                   outcomes, inflight>>

\* _append_audio, line 182
Append182 ==
    /\ WStep("a182", "a183")
    /\ pending_chunks' = Append(pending_chunks, cur.samples)
    /\ UNCHANGED <<walive, audio_queue, pending_samples, pending_sample_rate,
                   cur, segment_samples, step_samples, buffer, acc, out, wout, segs,
                   outcomes, inflight>>

\* _append_audio, line 183: += reads self.pending_samples ...
Append183Read ==
    /\ WStep("a183", "a183w")
    /\ acc' = pending_samples
    /\ UNCHANGED <<walive, audio_queue, pending_chunks, pending_samples,
                   pending_sample_rate, cur, segment_samples, step_samples,
                   buffer, out, wout, segs, outcomes, inflight>>

\* ... and writes the sum back
Append183Write ==
    /\ WStep("a183w", "b186")
    /\ pending_samples' = acc + Len(cur.samples)
    /\ acc' = 0
    /\ cur' = NoChunk
    /\ UNCHANGED <<walive, audio_queue, pending_chunks, pending_sample_rate,
                   segment_samples, step_samples, buffer, out, wout, segs, outcomes,
                   inflight>>

\* _process_buffer, lines 186-187
Buffer186 ==
    /\ IF pending_sample_rate = NoRate
       THEN WStep("b186", "loop")
       ELSE WStep("b186", "b188")
    /\ UNCHANGED <<walive, audio_queue, pending_chunks, pending_samples,
                   pending_sample_rate, cur, segment_samples, step_samples,
                   buffer, acc, out, wout, segs, outcomes, inflight>>

\* a float times None raises TypeError, which nothing in the worker catches:
\* the thread ends
WorkerRaises(from) ==
    /\ walive
    /\ wpc = from
    /\ wpc' = "crashed"
    /\ walive' = FALSE
    /\ UNCHANGED <<sidecarVars, mainVars, cur, segment_samples, step_samples,
                   buffer, acc, out, histVars, textVars>>

\* _process_buffer, line 188
Buffer188 ==
    IF pending_sample_rate = NoRate
    THEN WorkerRaises("b188")
    ELSE /\ WStep("b188", "b189")
         /\ segment_samples' =
                IntTrunc(options.segment_seconds, pending_sample_rate)
         /\ UNCHANGED <<walive, audio_queue, pending_chunks, pending_samples,
                        pending_sample_rate, cur, step_samples, buffer, acc,
                        out, wout, segs, outcomes, inflight>>

\* _process_buffer, line 189
Buffer189 ==
    IF pending_sample_rate = NoRate
    THEN WorkerRaises("b189")
    ELSE /\ WStep("b189", "b190")
         /\ step_samples' = IntTrunc(options.step_seconds, pending_sample_rate)
         /\ UNCHANGED <<walive, audio_queue, pending_chunks, pending_samples,
                        pending_sample_rate, cur, segment_samples, buffer,
                        acc, out, wout, segs, outcomes, inflight>>

\* _process_buffer, lines 190-191
Buffer190 ==
    /\ IF pending_samples < segment_samples
       THEN /\ WStep("b190", "loop")
            /\ NoLocals
       ELSE /\ WStep("b190", "b192")
            /\ UNCHANGED <<segment_samples, step_samples, buffer>>
    /\ UNCHANGED <<walive, audio_queue, pending_chunks, pending_samples,
                   pending_sample_rate, cur, acc, out, wout, segs, outcomes,
                   inflight>>

\* _process_buffer, line 197: where the while loop goes with this buffer
While197(buf, seg) == IF Len(buf) >= seg THEN "b198" ELSE "b201"

\* _process_buffer, lines 192-197
Buffer192 ==
    /\ WStep("b192", While197(Concat(pending_chunks), segment_samples))
    /\ buffer' = Concat(pending_chunks)
    /\ UNCHANGED <<walive, audio_queue, pending_chunks, pending_samples,
                   pending_sample_rate, cur, segment_samples, step_samples,
                   acc, out, wout, segs, outcomes, inflight>>

\* the segment cut at line 198
Segment(buf, seg) == PySliceTo(buf, seg)

\* (C1 mutant) line 200 advancing by the segment: no overlap
NextBufferNoOverlap(buf, seg, step) == PySliceFrom(buf, seg)

\* the buffer after line 200
NextBuffer(buf, seg, step) == PySliceFrom(buf, step)

\* _process_buffer, line 200, and the loop test after it
Advance ==
    /\ buffer' = NextBuffer(buffer, segment_samples, step_samples)
    /\ wpc' = While197(NextBuffer(buffer, segment_samples, step_samples),
                       segment_samples)

\* a worker step inside the while loop of _process_buffer
LoopStep(from) ==
    /\ walive
    /\ wpc = from
    /\ UNCHANGED <<mainVars, HAS_DEMUCS, options, ready, enabled, whisper,
                   separator, shutdown_event, fed, lastCtl, stale, walive,
                   audio_queue,
                   pending_chunks, pending_samples, pending_sample_rate, cur,
                   segment_samples, step_samples, acc, out, emitVars,
                   cleanVars>>

\* the log of segments handed to _process_segment (its first MaxSegLog)
Logged(log, x) == IF Len(log) < MaxSegLog THEN Append(log, x) ELSE log

\* _process_buffer, lines 198-199, and _process_segment, lines 205-208: the
\* segment is cut and handed over; without models the call returns at once
Buffer198 ==
    /\ LoopStep("b198")
    /\ UNCHANGED dedupVars
    /\ segs' = Logged(segs, Segment(buffer, segment_samples))
    /\ IF ~whisper \/ options = NoOptions \/ ~separator
       THEN /\ Advance
            /\ outcomes' = Logged(outcomes, "skipped")
            /\ UNCHANGED <<inflight, wout>>
       ELSE /\ wpc' = "s210"
            /\ inflight' = TRUE
            /\ UNCHANGED <<outcomes, buffer, wout>>

\* what _process_segment's try block can come to: words and a transcript sent,
\* nothing to send (no vocals, no words, all filtered), or an exception
Outcomes == {"sent", "silent", "raised"}

\* the lines _process_segment sends for an outcome (lines 220-223)
SegmentLines(o) ==
    CASE o = "sent" -> <<"word", "transcript">>
      [] o = "raised" -> <<"error">>
      [] OTHER -> <<>>

\* what an outcome leaves in the dedup state: a word sent was admitted by
\* _is_duplicate, which recorded it (here the one word "a") and its time
Admit(o) ==
    IF o = "sent"
    THEN /\ last_word' = <<"a">>
         /\ last_word_time' = now
    ELSE UNCHANGED dedupVars

\* (C9 mutant) no except clause: an exception in the try block ends the thread
Segment210Uncaught ==
    /\ walive
    /\ wpc = "s210"
    /\ UNCHANGED <<mainVars, HAS_DEMUCS, options, ready, enabled, whisper,
                   separator, shutdown_event, fed, lastCtl, stale, audio_queue,
                   pending_chunks, pending_samples, pending_sample_rate, cur,
                   segment_samples, step_samples, acc, out, emitVars,
                   cleanVars>>
    /\ \E o \in Outcomes :
          /\ Admit(o)
          /\ IF Len(outcomes) < Len(segs)
             THEN /\ outcomes' = Append(outcomes, o)
                  /\ wout' = wout \o (IF o = "raised" THEN <<>>
                                       ELSE SegmentLines(o))
             ELSE UNCHANGED <<outcomes, wout>>
          /\ IF o = "raised"
             THEN /\ wpc' = "crashed"
                  /\ walive' = FALSE
                  /\ UNCHANGED buffer
             ELSE /\ Advance
                  /\ UNCHANGED walive
    /\ inflight' = FALSE
    /\ UNCHANGED segs

\* _process_segment, lines 209-223: the call returns, whatever happened, and
\* the loop goes on
Segment210 ==
    /\ LoopStep("s210")
    /\ \E o \in Outcomes :
          /\ Admit(o)
          /\ IF Len(outcomes) < Len(segs)
             THEN /\ outcomes' = Append(outcomes, o)
                  /\ wout' = wout \o SegmentLines(o)
             ELSE UNCHANGED <<outcomes, wout>>
    /\ inflight' = FALSE
    /\ Advance
    /\ UNCHANGED segs

\* _process_buffer, line 201
Buffer201 ==
    /\ WStep("b201", "b202")
    /\ pending_chunks' = IF Len(buffer) > 0 THEN <<buffer>> ELSE <<>>
    /\ UNCHANGED <<walive, audio_queue, pending_samples, pending_sample_rate,
                   cur, segment_samples, step_samples, buffer, acc, out, wout, segs,
                   outcomes, inflight>>

\* _process_buffer, line 202, and the return to the loop
Buffer202 ==
    /\ WStep("b202", "loop")
    /\ pending_samples' = Len(buffer)
    /\ NoLocals
    /\ UNCHANGED <<walive, audio_queue, pending_chunks, pending_sample_rate,
                   cur, acc, out, wout, segs, outcomes, inflight>>

Worker ==
    \/ LoopHead
    \/ Get
    \/ CheckReady
    \/ CheckEnabled
    \/ Append178
    \/ Append179
    \/ Append180
    \/ Append181
    \/ Append182
    \/ Append183Read
    \/ Append183Write
    \/ Buffer186
    \/ Buffer188
    \/ Buffer189
    \/ Buffer190
    \/ Buffer192
    \/ Buffer198
    \/ Segment210
    \/ Buffer201
    \/ Buffer202

\* main has returned or died: the interpreter exits without waiting for the
\* daemon thread, which stops wherever it is
ProcessExit ==
    /\ mpc \in {"exited", "crashed"}
    /\ walive
    /\ walive' = FALSE
    /\ UNCHANGED <<sidecarVars, mainVars, wpc, cur, segment_samples,
                   step_samples, buffer, acc, out, histVars, textVars>>

Next == Main \/ Worker \/ ProcessExit

Spec == Init /\ [][Next]_vars

\* the same program, started with a chunk in the queue
SpecQueued == InitQueued /\ [][Next]_vars

\* ---------------------------------------------------------------- one stream
\* The Segment Buffer alone: a sidecar that is ready and enabled, whose
\* options give 0 < step_samples <= segment_samples at BufRate, is fed
\* chunks of one stream at BufRate, one handle_audio call after another, and
\* its worker folds them in.
BufOptionSet ==
    {o \in [segment_seconds : 1..MaxStream, step_seconds : 1..MaxStream] :
        /\ 0 < IntTrunc(o.step_seconds, BufRate)
        /\ IntTrunc(o.step_seconds, BufRate)
              <= IntTrunc(o.segment_seconds, BufRate)
        /\ IntTrunc(o.segment_seconds, BufRate) <= MaxStream}

InitBuffer ==
    /\ InitCommon
    /\ NothingFed
    /\ word = <<>>
    /\ options \in BufOptionSet
    /\ whisper = TRUE
    /\ separator = TRUE
    /\ ready = TRUE
    /\ enabled = TRUE
    /\ HAS_DEMUCS = TRUE

\* the caller hands the next chunk of the stream to handle_audio
FeedChunk ==
    /\ mpc = "read"
    /\ \E n \in 1..MaxChunkLen :
          /\ Len(fed) + n <= MaxStream
          /\ HandleAudio(n, BufRate)
    /\ UNCHANGED <<options, ready, enabled, whisper, separator,
                   shutdown_event, pending_chunks, pending_samples,
                   pending_sample_rate, HAS_DEMUCS, mainVars, workerVars, out,
                   segs, outcomes, wout, inflight, lastCtl, stale, textVars>>

BufferNext == FeedChunk \/ Worker

SpecBuffer == InitBuffer /\ [][BufferNext]_vars

\* ---------------------------------------------------------------- text
\* The characters of a word: brackets and parentheses, a blank, a letter and
\* a note glyph (written "*"). Newlines, which "." does not match, and the
\* other whitespace characters are left out.
Openers == {"(", "["}
Closers == {")", "]"}
Blank == " "
Notes == {"*"}
Chars == Openers \cup Closers \cup {Blank, "a"} \cup Notes

\* the strings of at most n characters
Strings(n) == UNION {[1..k -> Chars] : k \in 0..n}

\* the first place from `from` on where w has a character of S, or 0
FirstIn(w, from, S) ==
    LET I == {i \in from..Len(w) : w[i] \in S} IN
    IF I = {} THEN 0 ELSE CHOOSE i \in I : \A j \in I : i <= j

\* the last place where w has a character of S, or 0
LastIn(w, S) ==
    LET I == {i \in 1..Len(w) : w[i] \in S} IN
    IF I = {} THEN 0 ELSE CHOOSE i \in I : \A j \in I : j <= i

\* \s* from `from` on: the first place that holds no blank, or Len(w) + 1
SkipBlanks(w, from) ==
    LET I == {i \in from..Len(w) : w[i] # Blank} IN
    IF I = {} THEN Len(w) + 1 ELSE CHOOSE i \in I : \A j \in I : i <= j

\* \s* ending before p: the place where the run of blanks before p starts
BlanksBefore(w, p) ==
    LET I == {i \in 1..(p - 1) : w[i] # Blank} IN
    IF I = {} THEN 1 ELSE (CHOOSE i \in I : \A j \in I : j <= i) + 1

\* _clean_word, line 343: re.sub(r"^[\s\[\(].*?[\]\)]\s*", "", word): when the
\* string starts with a blank or an opener and a closer follows, everything up
\* to the first such closer and the blanks after it goes
StripPrefix(w) ==
    IF /\ Len(w) >= 1
       /\ w[1] \in Openers \cup {Blank}
       /\ FirstIn(w, 2, Closers) # 0
    THEN SubSeq(w, SkipBlanks(w, FirstIn(w, 2, Closers) + 1), Len(w))
    ELSE w

\* _clean_word, line 344: re.sub(r"\s*[\[\(].*?[\]\)]\s*$", "", cleaned): when
\* only blanks follow the last closer and an opener comes before it,
\* everything from the blanks before the first opener on goes
StripSuffix(w) ==
    LET q == LastIn(w, Closers) IN
    IF /\ q # 0
       /\ SkipBlanks(w, q + 1) = Len(w) + 1
       /\ FirstIn(w, 1, Openers) # 0
       /\ FirstIn(w, 1, Openers) < q
    THEN SubSeq(w, 1, BlanksBefore(w, FirstIn(w, 1, Openers)) - 1)
    ELSE w

\* _clean_word, line 345: the note glyphs go
StripNotes(w) == SelectSeq(w, LAMBDA c : c \notin Notes)

\* str.strip()
Strip(w) ==
    IF SkipBlanks(w, 1) = Len(w) + 1 THEN <<>>
    ELSE SubSeq(w, SkipBlanks(w, 1),
                LastIn(w, Chars \ {Blank}))

\* SpeechSidecar._clean_word
CleanWord(w) == Strip(StripNotes(StripSuffix(StripPrefix(w))))

\* SpeechSidecar._is_noise_text: the text, blanks around it aside, is one
\* parenthesised group, one bracketed group, or note glyphs only (the
\* patterns with a cue word match nothing the plain group patterns do not)
IsNoiseText(t) ==
    LET u == Strip(t) IN
    \/ /\ Len(u) >= 2
       /\ u[1] = "("
       /\ u[Len(u)] = ")"
       /\ \A i \in 2..(Len(u) - 1) : u[i] # ")"
    \/ /\ Len(u) >= 2
       /\ u[1] = "["
       /\ u[Len(u)] = "]"
       /\ \A i \in 2..(Len(u) - 1) : u[i] # "]"
    \/ /\ Len(u) >= 1
       /\ \A i \in 1..Len(u) : u[i] \in Notes

\* " ".join(word["word"] for word in words_out)
RECURSIVE Join(_)
Join(ws) ==
    IF ws = <<>> THEN <<>>
    ELSE IF Len(ws) = 1 THEN ws[1].word
    ELSE ws[1].word \o <<Blank>> \o Join(Tail(ws))

\* ---------------------------------------------------------------- cleaning
\* _clean_word alone: it is applied to a string and then to its own result.
\* characters in the input string
MaxWordLen == 4

InitClean ==
    /\ InitCommon
    /\ NothingFed
    /\ options = NoOptions
    /\ whisper = FALSE
    /\ separator = FALSE
    /\ ready = FALSE
    /\ enabled = FALSE
    /\ HAS_DEMUCS = TRUE
    /\ word \in Strings(MaxWordLen)

\* cleaned = self._clean_word(...), of the input and then of the result
CleanStep ==
    /\ Len(cleaned) < 2
    /\ cleaned' = Append(cleaned,
           CleanWord(IF cleaned = <<>> THEN word ELSE cleaned[Len(cleaned)]))
    /\ UNCHANGED <<sidecarVars, mainVars, workerVars, out, histVars,
                   dedupVars, emitVars, word>>

CleanNext == CleanStep

SpecClean == InitClean /\ [][CleanNext]_vars

\* ---------------------------------------------------------------- emission
\* The text stage alone: inside _process_segment, the for loop of line 220
\* takes the raw segment results of one audio segment after another and
\* _emit_segment goes through the words of each, while time passes.
\* word_infos in one raw segment result
MaxWords == 2
\* raw segment results the transcription gives for one audio segment
MaxRawSegments == 2
\* times the clock moves on
MaxTicks == 2
\* the 0.6 of line 333, in tenths of a second
DedupWindow == 6
\* the 0.4 of line 306, in tenths
Threshold == 4

\* raw words of the transcription model: a plain word, words with one odd
\* parenthesis, a note glyph, and a parenthesised group between glyphs
EmitWords ==
    {<<"a">>, <<"(", "a">>, <<"a", ")">>, <<"*">>, <<"*", "(", ")", "*">>}
\* word probabilities, in tenths: below the threshold and at it
Probabilities == {Threshold - 1, Threshold}
WordInfos == [word : EmitWords, probability : Probabilities]

InitEmit ==
    /\ InitCommon
    /\ NothingFed
    /\ options = [segment_seconds |-> 2, step_seconds |-> 2]
    /\ whisper = TRUE
    /\ separator = TRUE
    /\ ready = TRUE
    /\ enabled = TRUE
    /\ HAS_DEMUCS = TRUE
    /\ word = <<>>

\* what the text stage leaves alone
EmitFrame ==
    UNCHANGED <<sidecarVars, mainVars, workerVars, out, histVars, cleanVars>>

\* the clock moves on by this much at a time: half the dedup window
TickTenths == DedupWindow \div 2

\* time passes
Tick ==
    /\ now < MaxTicks * TickTenths
    /\ now' = now + TickTenths
    /\ EmitFrame
    /\ UNCHANGED <<dedupVars, epc, words_out, sent, seen, ncalls,
                   ntranscripts>>

\* _process_segment, lines 214-219: transcribe hands back the raw segment
\* results of an audio segment
TranscribeBegin ==
    /\ epc = "idle"
    /\ epc' = "segments"
    /\ ncalls' = 0
    /\ ntranscripts' = 0
    /\ words_out' = <<>>
    /\ sent' = <<>>
    /\ seen' = <<>>
    /\ EmitFrame
    /\ UNCHANGED <<dedupVars, now>>

\* _process_segment, line 220: no raw segment result is left
TranscribeEnd ==
    /\ epc = "segments"
    /\ epc' = "idle"
    /\ EmitFrame
    /\ UNCHANGED <<dedupVars, now, words_out, sent, seen, ncalls,
                   ntranscripts>>

\* _process_segment, lines 220-221, and _emit_segment, lines 301-304: the
\* next raw segment result, and the start of its words
EmitBegin ==
    /\ epc = "segments"
    /\ ncalls < MaxRawSegments
    /\ ncalls' = ncalls + 1
    /\ epc' = "words"
    /\ words_out' = <<>>
    /\ sent' = <<>>
    /\ seen' = <<>>
    /\ EmitFrame
    /\ UNCHANGED <<dedupVars, now, ntranscripts>>

\* (C18 mutant) line 306 with <= for <
BelowThresholdInclusive(p) == p <= Threshold

\* _emit_segment, line 306: word_info.probability < 0.4
BelowThreshold(p) == p < Threshold

\* (C12 mutant) line 333 with <= for <
IsDuplicateInclusive(w, t) ==
    last_word = w /\ t - last_word_time <= DedupWindow

\* _is_duplicate, line 333, t being time.time()
IsDuplicate(w, t) == last_word = w /\ t - last_word_time < DedupWindow

\* the word event of lines 312-316
WordEvent(w, p) == [word |-> w, confidence |-> p]

\* the word message of line 318
WordMessage(w, p) == [type |-> "word", word |-> w, confidence |-> p]

\* the transcript message of lines 322-329
TranscriptMessage(ws) ==
    [type |-> "transcript", text |-> Join(ws), words |-> ws]

\* a word_info gone through, and what became of it
Seen(info, v) ==
    [word |-> info.word, probability |-> info.probability, verdict |-> v]

\* _emit_segment, lines 304-318, and _is_duplicate: one word_info
EmitWord ==
    /\ epc = "words"
    /\ Len(seen) < MaxWords
    /\ \E info \in WordInfos :
          LET c == CleanWord(info.word) IN
          IF c = <<>> \/ BelowThreshold(info.probability)
          THEN /\ seen' = Append(seen, Seen(info, "rejected"))
               /\ UNCHANGED <<dedupVars, words_out, sent>>
          ELSE IF IsNoiseText(c)
          THEN /\ seen' = Append(seen, Seen(info, "noise"))
               /\ UNCHANGED <<dedupVars, words_out, sent>>
          ELSE IF IsDuplicate(c, now)
          THEN /\ seen' = Append(seen, Seen(info, "duplicate"))
               /\ UNCHANGED <<dedupVars, words_out, sent>>
          ELSE /\ seen' = Append(seen, Seen(info, "word"))
               /\ last_word' = c
               /\ last_word_time' = now
               /\ words_out' =
                      Append(words_out, WordEvent(c, info.probability))
               /\ sent' = Append(sent, WordMessage(c, info.probability))
    /\ EmitFrame
    /\ UNCHANGED <<now, epc, ncalls, ntranscripts>>

\* _emit_segment, line 304: the words are through
EmitWordsEnd ==
    /\ epc = "words"
    /\ epc' = "tail"
    /\ EmitFrame
    /\ UNCHANGED <<dedupVars, now, words_out, sent, seen, ncalls,
                   ntranscripts>>

\* (C13 mutant) the transcript sent without the noise check of line 321
EmitTranscriptUnchecked ==
    /\ epc = "tail"
    /\ epc' = "segments"
    /\ IF words_out # <<>>
       THEN /\ sent' = Append(sent, TranscriptMessage(words_out))
            /\ ntranscripts' = ntranscripts + 1
       ELSE UNCHANGED <<sent, ntranscripts>>
    /\ EmitFrame
    /\ UNCHANGED <<dedupVars, now, words_out, seen, ncalls>>

\* _emit_segment, lines 319-329
EmitTranscript ==
    /\ epc = "tail"
    /\ epc' = "segments"
    /\ IF words_out # <<>> /\ ~IsNoiseText(Join(words_out))
       THEN /\ sent' = Append(sent, TranscriptMessage(words_out))
            /\ ntranscripts' = ntranscripts + 1
       ELSE UNCHANGED <<sent, ntranscripts>>
    /\ EmitFrame
    /\ UNCHANGED <<dedupVars, now, words_out, seen, ncalls>>

EmitNext ==
    \/ Tick
    \/ TranscribeBegin
    \/ TranscribeEnd
    \/ EmitBegin
    \/ EmitWord
    \/ EmitWordsEnd
    \/ EmitTranscript

SpecEmit == InitEmit /\ [][EmitNext]_vars

\* ---------------------------------------------------------------- claims
\* segment_samples and step_samples of the stream of SpecBuffer
StreamSegment == IntTrunc(options.segment_seconds, BufRate)
StreamStep == IntTrunc(options.step_seconds, BufRate)

\* floor((total - segment_samples) / step_samples) + 1
ExpectedSegments(total, seg, step) == ((total - seg) \div step) + 1

\* every accepted chunk has been folded in and the worker waits for more
Quiescent == audio_queue = <<>> /\ wpc \in {"loop", "get"}

\* how many entries of a log are x
RECURSIVE Count(_, _)
Count(log, x) ==
    IF log = <<>> THEN 0
    ELSE (IF Head(log) = x THEN 1 ELSE 0) + Count(Tail(log), x)

\* C1: however a one-rate stream of total >= segment_samples samples is split
\* into chunks, once all chunks are folded in the buffer has handed over
\* exactly floor((total - segment_samples) / step_samples) + 1 segments, the
\* k-th being the segment_samples samples from offset k * step_samples of the
\* stream, and what is left pending is the stream from the next offset on.
C1_SegmentsOfStream ==
    /\ \A k \in 1..Len(segs) :
          segs[k] = Run((k - 1) * StreamStep, StreamSegment)
    /\ (/\ Quiescent
        /\ Len(fed) >= StreamSegment
        /\ ExpectedSegments(Len(fed), StreamSegment, StreamStep) <= MaxSegLog)
       => LET n == ExpectedSegments(Len(fed), StreamSegment, StreamStep) IN
          /\ Len(segs) = n
          /\ Concat(pending_chunks)
                = Run(n * StreamStep, Len(fed) - n * StreamStep)

\* C1 witness: a stream of several chunks has given two or more overlapping
\* segments
C1_Witness ==
    /\ Quiescent
    /\ Len(fed) > MaxChunkLen
    /\ Len(segs) >= 2
    /\ StreamStep < StreamSegment
    /\ segs[2][1] = segs[1][1 + StreamStep]

\* C9: a segment whose processing raises costs one error line and nothing
\* else: the worker lives, every segment of the stream is still handed over
\* and finished, and the buffer ends where it would have ended anyway.
C9_RaiseIsPerSegment ==
    /\ walive
    /\ Count(wout, "error") = Count(outcomes, "raised")
    /\ (/\ Quiescent
        /\ Len(fed) >= StreamSegment
        /\ ExpectedSegments(Len(fed), StreamSegment, StreamStep) <= MaxSegLog)
       => LET n == ExpectedSegments(Len(fed), StreamSegment, StreamStep) IN
          /\ Len(outcomes) = n
          /\ pending_samples = Len(fed) - n * StreamStep

\* C9 witness: a segment raised and a later segment was processed after it
C9_Witness ==
    /\ Quiescent
    /\ Len(outcomes) >= 2
    /\ outcomes[1] = "raised"
    /\ outcomes[Len(outcomes)] = "sent"
    /\ Count(wout, "error") = 1

\* the samples of s were all recorded at one rate
OneRate(s) == \A i, j \in 1..Len(s) : fed[s[i]] = fed[s[j]]

\* the samples of s were all recorded at rate r
AllAtRate(s, r) == \A i \in 1..Len(s) : fed[s[i]] = r

\* C2: a chunk at another rate clears the buffer before it is appended:
\* the pending chunks, the buffer being cut and every segment handed over
\* hold samples of one rate only, right after an append everything pending
\* is at the appended chunk's rate, and outside the two statements of the
\* reset the recorded rate is the rate of what is pending.
C2_OneRatePerBuffer ==
    /\ OneRate(Concat(pending_chunks))
    /\ OneRate(buffer)
    /\ \A k \in 1..Len(segs) : OneRate(segs[k])
    /\ wpc \in {"a183", "a183w"}
          => AllAtRate(Concat(pending_chunks), cur.sample_rate)
    /\ (pending_sample_rate # NoRate /\ wpc # "a180")
          => AllAtRate(Concat(pending_chunks), pending_sample_rate)

\* C2 witness: a chunk at a new rate has arrived over buffered samples of the
\* old rate, which the next statement discards
C2_Witness ==
    /\ wpc = "a180"
    /\ pending_chunks # <<>>
    /\ ~AllAtRate(Concat(pending_chunks), pending_sample_rate)
    /\ segs = <<>>

\* C3: the queue grows only in a step taken while the sidecar is ready and
\* enabled; a chunk handed over in any other state is dropped.
C3_QueuedOnlyWhenEnabled ==
    [][Len(audio_queue') > Len(audio_queue) => (ready /\ enabled)]_vars

\* C3 witness: handle_audio has queued a chunk
C3_Witness == audio_queue # <<>> /\ ready /\ enabled

\* s is strictly increasing
Increasing(s) == \A i \in 1..(Len(s) - 1) : s[i] < s[i + 1]

\* the places of _append_audio
AppendPlaces == {"a178", "a179", "a180", "a181", "a182", "a183", "a183w"}

\* C4: chunks are folded in in the order handle_audio accepted them (samples
\* are numbered in that order, so the queue, the pending buffer with the chunk
\* in hand, the buffer being cut and every segment are increasing), and a
\* chunk is appended only when no segment is being processed and no buffer is
\* being cut; a segment is in process only inside the one call of line 199.
C4_ArrivalOrder ==
    /\ Increasing(Concat([i \in 1..Len(audio_queue) |-> audio_queue[i].samples]))
    /\ wpc \in {"a178", "a182"}
          => Increasing(Concat(pending_chunks) \o cur.samples)
    /\ Increasing(Concat(pending_chunks))
    /\ Increasing(buffer)
    /\ \A k \in 1..Len(segs) : Increasing(segs[k])
    /\ (cur # NoChunk /\ audio_queue # <<>>)
          => cur.samples[Len(cur.samples)] < Head(audio_queue).samples[1]
    /\ wpc \in AppendPlaces => (~inflight /\ buffer = <<>>)
    /\ inflight => wpc = "s210"

\* C4 witness: two chunks were folded in one after the other and a segment
\* spanning both was handed over
C4_Witness ==
    /\ Len(segs) >= 1
    /\ Len(segs[1]) = 2
    /\ Len(fed) >= 2
    /\ inflight
    /\ audio_queue # <<>>

\* C5 as claimed: once disable() has returned and the worker has finished the
\* iteration it was in, the pending buffer is empty.
C5_DisableClears ==
    lastCtl = "settled" => (pending_chunks = <<>> /\ pending_samples = 0)

HandlerReturned == mpc \in {"read", "exited", "crashed"}

\* C7: whenever a handler has returned, enabled implies ready; an enable()
\* refused for want of readiness leaves the sidecar not enabled.
C7_EnabledOnlyWhenReady ==
    HandlerReturned =>
        /\ enabled => ready
        /\ lastCtl = "refused" => ~enabled

\* C7 witness: after an init that failed, enable() was refused
C7_Witness ==
    /\ HandlerReturned
    /\ lastCtl = "refused"
    /\ out # <<>>
    /\ out[Len(out)] = "error"
    /\ ~ready

\* C8 as claimed: after shutdown a call of _process_segment in flight runs to
\* completion: the worker never stops inside one.
C8_ShutdownLetsCallFinish == (shutdown_event /\ ~walive) => ~inflight

\* C10 as claimed: no inbound line stops the read loop; main leaves it only at
\* a shutdown message or at the end of input.
C10_ReadLoopSurvives == mpc # "crashed"

\* the places of initialize from which it can fail: the demucs check of line
\* 106 and the two model constructions
InitFailPlaces == {"i103", "i111", "i137"}

\* C11: an initialize that fails (demucs absent, or a model construction
\* raises) sends an error line, leaves ready and enabled false and returns
\* main to its read loop; a "ready" line is sent only by the step that sets
\* ready; and while ready is false no enable() takes effect, no chunk is
\* queued, and ready becomes true only at line 141 of a later initialize.
C11_FailedInitLeavesNotReady ==
    [][/\ (mpc \in InitFailPlaces /\ mpc' = "read")
            => (out' = Append(out, "error") /\ ~ready' /\ ~enabled')
       /\ (Len(out') > Len(out) /\ out'[Len(out')] = "ready")
            => (mpc = "i141" /\ ready')
       /\ ~ready
            => /\ enabled' => enabled
               /\ Len(audio_queue') <= Len(audio_queue)
               /\ ready' => mpc = "i141"]_vars

\* C11 witness: a sidecar that was ready got an init whose transcription
\* model failed to build, and the enable that followed was refused
C11_Witness ==
    /\ mpc = "read"
    /\ out = <<"loading-demucs", "loading-whisper", "error">>
    /\ whisper
    /\ ~ready
    /\ ~enabled
    /\ lastCtl = "refused"

\* C14 as claimed: cleaning a cleaned string changes nothing.
C14_CleanIdempotent == Len(cleaned) = 2 => cleaned[2] = cleaned[1]

\* the word_info the step has just gone through
Handled == seen'[Len(seen')]

\* the step is _emit_segment going through one word_info
WordStep == Len(seen') = Len(seen) + 1

\* C12: a word that comes to the dedup check (cleaned, confident, no noise)
\* with the text of the last admitted word, less than 0.6 s after that word
\* was admitted, is not sent and leaves the dedup state as it is; any other
\* word that comes to the check is sent and becomes the dedup state, with the
\* time of its admission.
C12_DedupWindow ==
    [][WordStep =>
         LET c == CleanWord(Handled.word)
             p == Handled.probability
         IN  (c # <<>> /\ p >= Threshold /\ ~IsNoiseText(c)) =>
                IF c = last_word /\ now - last_word_time < DedupWindow
                THEN /\ Handled.verdict = "duplicate"
                     /\ UNCHANGED <<last_word, last_word_time, sent,
                                    words_out>>
                ELSE /\ Handled.verdict = "word"
                     /\ last_word' = c
                     /\ last_word_time' = now
                     /\ sent' = Append(sent, WordMessage(c, p))]_vars

\* C12 witness: in one raw segment result the word "a" came twice: first
\* within the window of an "a" admitted before and was suppressed, then, the
\* window being over, it was admitted
C12_Witness ==
    /\ Len(seen) = 2
    /\ seen[1].word = <<"a">>
    /\ seen[1].verdict = "duplicate"
    /\ seen[2].word = <<"a">>
    /\ seen[2].verdict = "word"
    /\ last_word = <<"a">>
    /\ last_word_time = now
    /\ now >= DedupWindow

\* the messages of one type among those sent
OfType(msgs, t) == SelectSeq(msgs, LAMBDA m : m.type = t)

\* the word_infos gone through that were admitted, as word events
RECURSIVE Admitted(_)
Admitted(log) ==
    IF log = <<>> THEN <<>>
    ELSE (IF Head(log).verdict = "word"
          THEN <<WordEvent(CleanWord(Head(log).word), Head(log).probability)>>
          ELSE <<>>) \o Admitted(Tail(log))

\* C13 as claimed: the processing of one audio segment sends at most one
\* transcript message.
C13_OneTranscriptPerAudioSegment == ntranscripts <= 1

\* C13 amended: each _emit_segment call (one per raw segment result of the
\* transcription) sends at most one transcript message, and only when a word
\* of that call was admitted and the joined text is no noise; the word
\* messages of the call are its admitted word_infos, one each and in order;
\* the transcript carries exactly those words and comes after all of them.
C13_OneTranscriptPerCall ==
    /\ Len(OfType(sent, "transcript")) <= 1
    /\ Len(OfType(sent, "word")) = Len(words_out)
    /\ words_out = Admitted(seen)
    /\ \A i \in 1..Len(words_out) :
          /\ OfType(sent, "word")[i].word = words_out[i].word
          /\ OfType(sent, "word")[i].confidence = words_out[i].confidence
    /\ OfType(sent, "transcript") # <<>> =>
          /\ words_out # <<>>
          /\ ~IsNoiseText(Join(words_out))
          /\ sent[Len(sent)].type = "transcript"
          /\ sent[Len(sent)].words = words_out
          /\ sent[Len(sent)].text = Join(words_out)
          /\ epc \in {"segments", "idle"}
    /\ ntranscripts <= ncalls

\* C13 witness: the second raw segment result of an audio segment has sent
\* two words and a transcript, the second transcript of that audio segment
C13_Witness ==
    /\ ncalls = 2
    /\ ntranscripts = 2
    /\ Len(sent) = 3
    /\ sent[3].type = "transcript"
    /\ Len(sent[3].words) = 2

\* C18: a word_info is rejected ahead of the noise and dedup checks exactly
\* when its cleaned text is empty or its probability is below 0.4 (0.4 itself
\* passes); a word rejected so, or as noise, is not sent and leaves the dedup
\* state as it is.
C18_RejectedBeforeNoise ==
    [][WordStep =>
         LET c == CleanWord(Handled.word)
             p == Handled.probability
         IN  /\ Handled.verdict = "rejected" <=> (c = <<>> \/ p < Threshold)
             /\ Handled.verdict = "noise"
                   <=> (c # <<>> /\ p >= Threshold /\ IsNoiseText(c))
             /\ Handled.verdict \in {"rejected", "noise"}
                   => UNCHANGED <<last_word, last_word_time, sent,
                                  words_out>>]_vars

\* C18 witness: a word below the threshold was rejected though its cleaned
\* text is noise, and a word at the threshold was admitted
C18_Witness ==
    /\ Len(seen) = 2
    /\ seen[1].probability = Threshold - 1
    /\ IsNoiseText(CleanWord(seen[1].word))
    /\ seen[1].verdict = "rejected"
    /\ seen[2].probability = Threshold
    /\ seen[2].verdict = "word"
    /\ Len(sent) = 1

\* C15 as claimed: no uncaught error ends the worker: whatever the control
\* path does while the worker appends, cuts and processes, the worker thread
\* never dies of an exception.
C15_WorkerNeverRaises == wpc # "crashed"

\* the places of the while loop of _process_buffer
CutPlaces == {"b198", "s210"}

\* C16 as claimed: no configuration that initialize accepted lets the cut
\* loop run with a step that is not positive (with which it cannot end).
C16_StepPositiveInLoop == wpc \in CutPlaces => step_samples > 0

\* the pending buffer and the dedup state
PipelineState ==
    <<pending_chunks, pending_samples, pending_sample_rate, last_word,
      last_word_time>>

\* the places of the worker past the check of line 172
CheckedPlaces == AppendPlaces \cup CutPlaces \cup {"b201", "b202"}

\* C17 as claimed: only the worker, past its ready/enabled check, changes the
\* pending buffer or the dedup state; no step of the control path does.
C17_OnlyWorkerMutates ==
    [][PipelineState' # PipelineState
          => (UNCHANGED mainVars /\ wpc \in CheckedPlaces)]_vars

\* neither thread is inside an operation
AtRest == mpc = "read" /\ wpc \in {"loop", "get"}

\* C19 as claimed, for the states in which neither thread is inside an
\* operation: pending_samples is the number of samples in pending_chunks, and
\* a rate is recorded whenever pending_chunks holds a chunk.
C19_BufferAccounting ==
    AtRest =>
        /\ pending_samples = Len(Concat(pending_chunks))
        /\ pending_chunks # <<>> => pending_sample_rate # NoRate

\* C20 as claimed: a sample accepted before disable() was called is not
\* appended to the pending buffer, and is in no segment handed over, once
\* the sidecar is enabled again.
C20_NoAudioSurvivesDisable ==
    [][/\ (wpc = "a182" /\ wpc' = "a183" /\ enabled)
            => \A i \in 1..Len(cur.samples) : cur.samples[i] > stale
       /\ (wpc = "b198" /\ Len(segs') > Len(segs) /\ enabled)
            => \A i \in 1..Len(segs'[Len(segs')]) :
                  segs'[Len(segs')][i] > stale]_vars

====
